---- MODULE Spec2Model ----
(***************************************************************************)
(* Model of the ORM update agent (src/src/main.rs, src/src/update/mod.rs,  *)
(* src/src/io.rs).  One run of the agent is one update attempt: main       *)
(* resolves the current version, calls update::execute and then possibly   *)
(* starts the installed application.  The filesystem under local_prefix    *)
(* is the persistent state; every fallible I/O call of the code is a step  *)
(* that may fail.                                                          *)
(***************************************************************************)
EXTENDS Integers, Sequences, FiniteSets

\* ---------------------------------------------------------------- bounds
MaxAttempts == 2
MaxEntries == 3
MaxDevices == 2
MaxSegments == 3

\* ------------------------------------------------------- version strings
\* A version string is the tuple of its dot-separated numbers; a fourth
\* component stands for a pre-release tag ("-rc") appended to it.
\* <<1,0,0>> is "1.0.0", <<1,0,0,0>> is "1.0.0-rc", <<1,0>> is "1.0".
VersionStrs == { <<1, 0, 0, 0>>, <<1, 0, 0>>, <<1, 0>> }

\* Content of a file that holds no text.
EmptyStr == << >>

\* Marker value of an application directory without a .orm_version file.
NoMarker == << -1 >>

\* semver::Version as <<major, minor, patch, release>>; release is 0 for a
\* pre-release and 1 otherwise, so that 1.0.0-rc < 1.0.0.
ZeroVersion == <<0, 0, 0, 1>>

\* semver::Version::parse
ParseOk(s) == Len(s) \in {3, 4} /\ \A i \in 1..Len(s) : s[i] >= 0

ParseVersion(s) == <<s[1], s[2], s[3], IF Len(s) = 3 THEN 1 ELSE 0>>

\* Ord for semver::Version: a < b
VersionLess(a, b) ==
    \E i \in 1..4 : a[i] < b[i] /\ \A j \in 1..(i - 1) : a[j] = b[j]

VersionLeq(a, b) == a = b \/ VersionLess(a, b)

\* ------------------------------------------------------------ filesystem
\* A directory holding an application: where its code came from, the
\* scripts in it and the content of its version marker.
Absent == [exists |-> FALSE, src |-> << >>, files |-> {}, marker |-> NoMarker]

Dir(src, files, marker) ==
    [exists |-> TRUE, src |-> src, files |-> files, marker |-> marker]

Factory == << 0 >>
Overwritten == << -2 >>

\* A <app_name>-<ts>.tar.gz file: the directory whose entries were written to
\* its encoder, and whether the stream was finished, so that the file on
\* disk holds them.
NoTar == [exists |-> FALSE, complete |-> FALSE, of |-> Absent]

\* What an earlier run of the agent left in local_prefix is kept by name
\* only: a directory (empty or not) and a file whose content is not
\* followed any further.
Earlier == << -3 >>

StaleDir(dir) ==
    IF ~dir.exists THEN dir
    ELSE [exists |-> TRUE, src |-> Earlier,
          files |-> IF dir.files # {} \/ dir.marker # NoMarker THEN {"run.sh"} ELSE {},
          marker |-> NoMarker]

StaleTar(tar) ==
    IF ~tar.exists THEN tar
    ELSE [exists |-> TRUE, complete |-> FALSE, of |-> Absent]

\* Values of Utc::now().format("%Y%m%d%H%M%S"): one per run of the agent
\* at most, since two runs may fall into the same second.
Timestamps == 1..MaxAttempts

\* ------------------------------------------------------ thing identifiers
\* Output of id.sh after trim(), as a sequence of characters.
IdOutputs == { <<"a">>, <<"1", "a">>, <<"1">>, << >> }

IsLetter(c) == c \in {"a"}

\* regex::Regex::new("[A-Za-z]+[A-Za-z0-9-]*").is_match(thing_id): an
\* unanchored search, which succeeds on any letter of the string.
IdRegexIsMatch(id) == \E i \in 1..Len(id) : IsLetter(id[i])

\* ------------------------------------------------------------- manifest
\* A device pattern is a one-character regex; "(" does not compile.
Patterns == {"a", "1", "("}

PatternCompiles(p) == p # "("

PatternIsMatch(p, id) == \E i \in 1..Len(id) : id[i] = p

Devices == [pattern : Patterns, version : VersionStrs]

ObjectTypes == {"gateway", "sensor"}

\* env!("OBJECT_TYPE")
OBJECT_TYPE == "gateway"

SeqsUpTo(S, n) == UNION { [1..k -> S] : k \in 0..n }

Manifests == [object_type : ObjectTypes, devices : SeqsUpTo(Devices, MaxDevices)]

NoManifest == [object_type |-> "", devices |-> << >>]

\* Mutant of FindDevice: a pattern that does not compile ends the scan.
RECURSIVE FindDeviceStrict(_, _, _)
FindDeviceStrict(devices, id, i) ==
    IF i > Len(devices) THEN [index |-> 0, evaluated |-> Len(devices)]
    ELSE IF ~PatternCompiles(devices[i].pattern)
         THEN [index |-> 0, evaluated |-> i]
         ELSE IF PatternIsMatch(devices[i].pattern, id)
              THEN [index |-> i, evaluated |-> i]
              ELSE FindDeviceStrict(devices, id, i + 1)

\* manifest.devices.iter().find(|dev| ...): the scan evaluates devices in
\* order and stops at the first whose pattern compiles and matches.
\* Returns the index found (0 for None) and the number of devices evaluated.
RECURSIVE FindDevice(_, _, _)
FindDevice(devices, id, i) ==
    IF i > Len(devices) THEN [index |-> 0, evaluated |-> Len(devices)]
    ELSE IF PatternCompiles(devices[i].pattern)
            /\ PatternIsMatch(devices[i].pattern, id)
         THEN [index |-> i, evaluated |-> i]
         ELSE FindDevice(devices, id, i + 1)

\* ------------------------------------------------------------------ URIs
\* A string of a URI path is a sequence of tokens: "/" and segment names.
Schemes == {"http", "https"}

Authorities == {"foo", "foo:8080"}

SegmentNames == {"bar", "baz", "manifest.yaml"}

\* The path made of the segments `segs`, each preceded by "/".
RECURSIVE PathOf(_)
PathOf(segs) ==
    IF segs = << >> THEN << >>
    ELSE <<"/", Head(segs)>> \o PathOf(Tail(segs))

\* URLs made of a scheme, an authority and a path of 1..MaxSegments segments.
Urls ==
    [scheme : Schemes, authority : Authorities,
     path : { PathOf(segs) : segs \in SeqsUpTo(SegmentNames, MaxSegments) \ {<< >>} }]

\* env!("YAML_MANIFEST_URL")
YAML_MANIFEST_URL ==
    [scheme |-> "https", authority |-> "foo",
     path |-> <<"/", "bar", "/", "manifest.yaml">>]

NoUri == [scheme |-> "", authority |-> "", path |-> << >>]

\* path.split("/"): the pieces between the separators, empty ones included.
RECURSIVE Split(_)
Split(str) ==
    IF str = << >> THEN << << >> >>
    ELSE LET rest == Split(Tail(str)) IN
         IF Head(str) = "/" THEN << << >> >> \o rest
         ELSE << <<Head(str)>> \o rest[1] >> \o Tail(rest)

\* Mutant of Take: the last segment is kept.
TakeAll(seq, k) == seq

\* iter().take(k)
Take(seq, k) == SubSeq(seq, 1, k)

\* fold("", |out, seg| match seg { "" => out, _ => out + "/" + seg })
RECURSIVE FoldSegments(_, _, _)
FoldSegments(segs, i, out) ==
    IF i > Len(segs) THEN out
    ELSE FoldSegments(segs, i + 1,
                      IF segs[i] = << >> THEN out ELSE out \o <<"/">> \o segs[i])

\* PathAndQuery::path(): "/" when the parsed text is empty.
PathAndQueryPath(text) == IF text = << >> THEN <<"/">> ELSE text

\* parent_uri
ParentUri(url) ==
    LET path_segments == Split(url.path)
        path_count == Len(path_segments)
    IN [scheme |-> url.scheme,
        authority |-> url.authority,
        path |-> PathAndQueryPath(
                    FoldSegments(Take(path_segments, path_count - 1), 1, << >>))]

\* -------------------------------------------------------------- archive
\* Tar entry paths: the directory <app_name>, the two scripts under it, and
\* an absolute path naming run.sh of the live application directory.
EntryPaths == {"app", "app/run.sh", "app/id.sh", "/live/app/run.sh"}

Archives == SeqsUpTo(EntryPaths, MaxEntries)

ScriptOf(path) == IF path = "app/run.sh" THEN "run.sh" ELSE "id.sh"

\* State of the extraction fold: the staged <app_name> directory, the live
\* application directory and the entries kept by the filter.
\* entry.unpack(extracted_path.join(path)) needs the parent directory to
\* exist; an absolute path replaces extracted_path in the join.
ExtractStep(st, path, ver) ==
    CASE path = "app" ->
           IF st.staged.exists THEN st
           ELSE [st EXCEPT !.staged = Dir(ver, {}, NoMarker)]
      [] path \in {"app/run.sh", "app/id.sh"} ->
           IF st.staged.exists
           THEN [st EXCEPT !.staged.files = @ \cup {ScriptOf(path)},
                           !.kept = Append(@, path)]
           ELSE st
      [] OTHER ->
           IF st.live.exists
           THEN [st EXCEPT !.live.files = @ \cup {"run.sh"},
                           !.live.src = Overwritten]
           ELSE st

RECURSIVE ExtractFold(_, _, _, _)
ExtractFold(st, archive, i, ver) ==
    IF i > Len(archive) THEN st
    ELSE ExtractFold(ExtractStep(st, archive[i], ver), archive, i + 1, ver)

\* extract_archive: Ok iff exactly two kept entries.
ArchiveAccepted(kept) == Len(kept) = 2

\* ---------------------------------------------------------------- state
VARIABLES
    pc,                \* position of the agent: "boot" when it is not running
    attempt,           \* number of runs of the agent started so far
    appDir,            \* <local_prefix>/<app_name>
    archDirs,          \* <local_prefix>/<app_name>-<ts>, by timestamp
    tarballs,          \* <local_prefix>/<app_name>-<ts>.tar.gz, by timestamp
    ledger,            \* <local_prefix>/.orm_failed
    staging,           \* extracted_dir of the attempt and its <app_name> subtree
    currentVersion,    \* current_version
    thingId,           \* thing_id
    manifest,          \* manifest whose devices are scanned
    manifestStatus,    \* status of the response to the manifest GET
    manifestType,      \* manifest.object_type of the manifest fetched
    found,             \* index of the device found and number of devices evaluated
    newVersion,        \* device.version, the string assigned by the manifest
    arFile,            \* entries of the downloaded archive
    arScripts,         \* scripts the downloaded archive holds under <app_name>
    ts,                \* timestamp of archived_path
    previousArchives,  \* previous_archives
    child,             \* process spawned from run.sh of the new release
    failCause,         \* step whose error entered the failure path
    pendingErr,        \* error returned by run_updated, before the cleanup
    clock,             \* latest timestamp read from the clock
    outcome,           \* result of execute
    appRuns,           \* results of the calls of run_app by main, in order
    preApp,            \* appDir when the attempt started
    preLedger,         \* ledger when the attempt started
    requests,          \* HTTP requests issued by the attempt, in order
    passed,            \* checks of the pipeline passed by the attempt, in order
    appOps,            \* operations of the attempt that changed appDir
    manifestUrl,       \* manifest_url
    parentUri          \* parent_uri of download_archive_to

fsVars == <<appDir, archDirs, tarballs, ledger, staging>>
startVars == <<attempt, currentVersion, preApp, preLedger, manifest, clock>>
netVars == <<thingId, manifestStatus, manifestType, found, newVersion, requests,
            passed>>
arVars == <<arFile, arScripts>>
swapVars == <<ts, previousArchives, child, failCause, pendingErr>>

uriVars == <<manifestUrl, parentUri>>

vars == <<pc, fsVars, startVars, netVars, arVars, swapVars, outcome, appRuns,
          appOps, uriVars>>

NoOutcome == [kind |-> "none", reason |-> "", status |-> 0]
NoUpdate(reason) == [kind |-> "NoUpdate", reason |-> reason, status |-> 0]
AppTerminated(status) == [kind |-> "AppTerminated", reason |-> "", status |-> status]
Err(reason) == [kind |-> "Err", reason |-> reason, status |-> 0]

NoStaging == [exists |-> FALSE, app |-> Absent]
NoFound == [index |-> 0, evaluated |-> 0]
NoLedger == [exists |-> FALSE, lines |-> << >>]

\* The locals of a run of the agent before main has set them.
Fresh ==
    /\ currentVersion = ZeroVersion
    /\ thingId = << >>
    /\ manifestStatus = 0
    /\ manifestType = ""
    /\ found = NoFound
    /\ newVersion = EmptyStr
    /\ arFile = << >>
    /\ arScripts = {}
    /\ ts = 0
    /\ previousArchives = {}
    /\ child = "none"
    /\ failCause = ""
    /\ pendingErr = ""
    /\ outcome = NoOutcome
    /\ appRuns = << >>
    /\ requests = << >>
    /\ passed = << >>
    /\ appOps = {}

\* An installed application (with no version marker, or marked 1.0.0-rc), no
\* archive of an earlier generation, and a ledger that may not exist yet.
Init ==
    /\ pc = "boot"
    /\ attempt = 0
    /\ \E m \in {NoMarker, <<1, 0, 0, 0>>} :
          appDir = Dir(Factory, {"run.sh", "id.sh"}, m)
    /\ archDirs = [t \in Timestamps |-> Absent]
    /\ tarballs = [t \in Timestamps |-> NoTar]
    /\ ledger \in {NoLedger, [exists |-> TRUE, lines |-> << >>]}
    /\ staging = NoStaging
    /\ manifest = NoManifest
    /\ clock = 0
    /\ preApp = appDir
    /\ preLedger = ledger
    /\ manifestUrl = YAML_MANIFEST_URL
    /\ parentUri = NoUri
    /\ Fresh

\* execute returns `result` to main.
Return(result) ==
    /\ pc' = "main_result"
    /\ outcome' = result

\* execute goes on to the step `next`.
Goto(next) ==
    /\ pc' = next
    /\ outcome' = outcome

\* resolve_version
ResolveVersion(marker) ==
    IF marker = NoMarker THEN ZeroVersion
    ELSE IF ParseOk(marker) THEN ParseVersion(marker)
         ELSE ZeroVersion

\* main, up to the call of update::execute.  A run starts with no staging
\* directory of its own, and with the leftovers of earlier runs as they are.
Main ==
    /\ pc = "boot"
    /\ attempt < MaxAttempts
    /\ attempt' = attempt + 1
    /\ preApp' = appDir
    /\ preLedger' = ledger
    /\ thingId' = << >>
    /\ manifestStatus' = 0
    /\ manifestType' = ""
    /\ found' = NoFound
    /\ newVersion' = EmptyStr
    /\ arFile' = << >>
    /\ arScripts' = {}
    /\ ts' = 0
    /\ previousArchives' = {}
    /\ child' = "none"
    /\ failCause' = ""
    /\ pendingErr' = ""
    /\ appRuns' = << >>
    /\ requests' = << >>
    /\ passed' = << >>
    /\ appOps' = {}
    /\ archDirs' = [t \in Timestamps |-> StaleDir(archDirs[t])]
    /\ tarballs' = [t \in Timestamps |-> StaleTar(tarballs[t])]
    /\ staging' = NoStaging
    /\ parentUri' = NoUri
    /\ UNCHANGED <<appDir, ledger, manifest, clock, manifestUrl>>
    /\ \/ /\ ~appDir.exists
          /\ pc' = "boot"
          /\ outcome' = Err("main: no application directory")
          /\ currentVersion' = ZeroVersion
       \/ /\ appDir.exists
          /\ appDir.marker # NoMarker
          /\ pc' = "boot"
          /\ outcome' = Err("main: version marker unreadable")
          /\ currentVersion' = ZeroVersion
       \/ /\ appDir.exists
          /\ pc' = "resolve_id"
          /\ outcome' = NoOutcome
          /\ currentVersion' = ResolveVersion(appDir.marker)

\* resolve_id
ResolveId ==
    /\ pc = "resolve_id"
    /\ UNCHANGED uriVars
    /\ UNCHANGED <<fsVars, startVars, arVars, swapVars, appRuns, appOps>>
    /\ UNCHANGED <<manifestStatus, manifestType, found, newVersion, requests,
                   passed>>
    /\ \/ /\ "id.sh" \notin appDir.files
          /\ thingId' = << >>
          /\ Return(Err("identity"))
       \/ /\ "id.sh" \in appDir.files
          /\ \E out \in IdOutputs :
                IF IdRegexIsMatch(out)
                THEN /\ thingId' = out
                     /\ Goto("device_settings")
                ELSE /\ thingId' = << >>
                     /\ Return(Err("identity"))

\* Mutant of TypeMismatch: the object type is not checked.
TypeMismatchIgnored(type) == FALSE

\* if manifest.object_type != object_type { return Err(..) }
TypeMismatch(type) == type # OBJECT_TYPE

\* Statuses of the response to the manifest GET.
HttpStatuses == {200, 204, 404}

\* if status != 200 { return Err(..) }
StatusRejected(status) == status # 200

\* device_settings and the unwrapping of its result in execute.  The
\* request fails, or its response has a status and a body that either does
\* not parse or is a manifest.
DeviceSettings ==
    /\ pc = "device_settings"
    /\ UNCHANGED uriVars
    /\ requests' = Append(requests, "manifest")
    /\ thingId' = << >>
    /\ UNCHANGED <<fsVars, startVars, arVars, swapVars, appRuns, appOps>>
    /\ \/ /\ Return(Err("fetch"))
          /\ UNCHANGED <<manifestStatus, manifestType, found, newVersion, passed>>
       \/ \E status \in HttpStatuses :
             /\ manifestStatus' = status
             /\ IF StatusRejected(status)
                THEN /\ Return(Err("status"))
                     /\ UNCHANGED <<manifestType, found, newVersion, passed>>
                ELSE \/ /\ Return(Err("parse"))
                        /\ passed' = passed \o <<"status">>
                        /\ UNCHANGED <<manifestType, found, newVersion>>
                     \/ \E m \in Manifests :
                           LET f == FindDevice(m.devices, thingId, 1) IN
                           /\ manifestType' = m.object_type
                           /\ IF TypeMismatch(m.object_type)
                              THEN /\ Return(Err("mismatch"))
                                   /\ passed' = passed \o <<"status", "parse">>
                                   /\ UNCHANGED <<found, newVersion>>
                              ELSE /\ found' = f
                                   /\ IF f.index = 0
                                      THEN /\ Return(Err("no device"))
                                           /\ passed' = passed \o
                                                 <<"status", "parse", "object_type">>
                                           /\ UNCHANGED newVersion
                                      ELSE /\ newVersion' = m.devices[f.index].version
                                           /\ Goto("gate")
                                           /\ passed' = passed \o
                                                 <<"status", "parse", "object_type",
                                                   "device">>

\* Mutant of LedgerHas: the line is compared without being parsed.
LedgerHasUnparsed(lines, v) == \E i \in 1..Len(lines) : lines[i] = v

\* find_line(path, |line| parse(line) == Ok(new_version)) on an open file
LedgerHas(lines, v) ==
    \E i \in 1..Len(lines) : ParseOk(lines[i]) /\ ParseVersion(lines[i]) = v

\* Mutant of UpToDate: < in place of <=.
UpToDateStrict(new, current) == VersionLess(new, current)

\* if new_version <= current_version { return NoUpdate }
UpToDate(new, current) == VersionLeq(new, current)

\* execute: the version gate and the check of the failed versions.
\* find_line fails when the ledger does not exist or cannot be read.
Gate ==
    /\ pc = "gate"
    /\ UNCHANGED uriVars
    /\ found' = NoFound
    /\ UNCHANGED <<fsVars, startVars, arVars, swapVars, appRuns, appOps>>
    /\ UNCHANGED <<thingId, manifestStatus, manifestType, newVersion, requests>>
    /\ IF ~ParseOk(newVersion)
       THEN /\ Return(Err("version"))
            /\ UNCHANGED passed
       ELSE IF UpToDate(ParseVersion(newVersion), currentVersion)
       THEN /\ Return(NoUpdate("up-to-date"))
            /\ passed' = Append(passed, "version")
       ELSE \/ /\ Return(Err("ledger read"))
               /\ passed' = passed \o <<"version", "newer">>
            \/ /\ ledger.exists
               /\ IF LedgerHas(ledger.lines, ParseVersion(newVersion))
                  THEN /\ Return(NoUpdate("failed version"))
                       /\ passed' = passed \o <<"version", "newer">>
                  ELSE /\ Goto("download")
                       /\ passed' = passed \o <<"version", "newer", "not failed">>

\* The scripts an archive holds directly under <app_name>.
ScriptsIn(archive) ==
    { ScriptOf(archive[i]) :
        i \in { j \in 1..Len(archive) : archive[j] \in {"app/run.sh", "app/id.sh"} } }

\* Drop of the TempDir `extracted_dir` when execute returns an error: the
\* directory is removed, and an error of the removal is ignored.
DropTempDir(dir) == {NoStaging, dir}

\* execute: tempfile, download_archive_to, tempdir and extract_archive.
\* download_archive_to derives the URI of the archive from parent_uri.
\* The body of the response is any archive; the archive file is not read
\* again after the extraction.  An error of extract_archive drops the
\* TempDir.
Download ==
    /\ pc = "download"
    /\ UNCHANGED <<archDirs, tarballs, ledger, startVars, swapVars, appRuns>>
    /\ UNCHANGED <<thingId, manifestStatus, manifestType, found, newVersion,
                   passed, arFile>>
    /\ UNCHANGED manifestUrl
    /\ \/ /\ Return(Err("tempfile"))
          /\ UNCHANGED <<appDir, staging, appOps, arScripts, requests, parentUri>>
       \/ /\ Return(Err("download"))
          /\ parentUri' = ParentUri(manifestUrl)
          /\ requests' = Append(requests, "archive")
          /\ UNCHANGED <<appDir, staging, appOps, arScripts>>
       \/ /\ Return(Err("tempdir"))
          /\ parentUri' = ParentUri(manifestUrl)
          /\ requests' = Append(requests, "archive")
          /\ UNCHANGED <<appDir, staging, appOps, arScripts>>
       \/ \E ar \in Archives :
             LET st == ExtractFold([staged |-> Absent, live |-> appDir,
                                    kept |-> << >>], ar, 1, newVersion) IN
             /\ parentUri' = ParentUri(manifestUrl)
             /\ requests' = Append(requests, "archive")
             /\ arScripts' = ScriptsIn(ar)
             /\ appDir' = st.live
             /\ appOps' = IF st.live # appDir THEN appOps \cup {"unpack"} ELSE appOps
             /\ IF ArchiveAccepted(st.kept)
                THEN /\ staging' = [exists |-> TRUE, app |-> st.staged]
                     /\ Goto("rename1")
                ELSE /\ staging' \in DropTempDir([exists |-> TRUE, app |-> st.staged])
                     /\ Return(Err("invalid archive"))

\* fs::rename(from, to) onto a directory that exists and is not empty fails.
NotEmpty(dir) == dir.exists /\ (dir.files # {} \/ dir.marker # NoMarker)

\* Utc::now(): the second of the previous reading, or a later one.
Now == {clock, clock + 1} \cap Timestamps

\* run_updated: archived_path from Utc::now(), fs::rename(app_dir, archived_dir)?
Rename1 ==
    /\ pc = "rename1"
    /\ UNCHANGED uriVars
    /\ UNCHANGED <<tarballs, ledger, staging, attempt, currentVersion, preApp,
                   preLedger, manifest, netVars, arVars, previousArchives, child,
                   failCause, outcome, appRuns>>
    /\ \E t \in Now :
          /\ ts' = t
          /\ clock' = t
          /\ \/ /\ pendingErr' = "swap"
                /\ pc' = "cleanup"
                /\ UNCHANGED <<appDir, archDirs, appOps>>
             \/ /\ appDir.exists
                /\ ~NotEmpty(archDirs[t])
                /\ archDirs' = [archDirs EXCEPT ![t] = appDir]
                /\ appDir' = Absent
                /\ appOps' = appOps \cup {"rename"}
                /\ pendingErr' = pendingErr
                /\ pc' = "rename2"

\* Entering the or_else closure of run_updated with the error of a step.
Fail(step) ==
    /\ failCause' = step
    /\ pc' = "mark_failed"

\* The and_then chain of run_updated goes on to the step `next`.
Then(next) ==
    /\ failCause' = failCause
    /\ pc' = next

\* run_updated: fs::rename(extracted_path.join(app_prefix), app_dir)
Rename2 ==
    /\ pc = "rename2"
    /\ UNCHANGED uriVars
    /\ UNCHANGED <<archDirs, tarballs, ledger, startVars, netVars, arVars,
                   ts, previousArchives, child, pendingErr, outcome, appRuns>>
    /\ \/ /\ Fail("rename2")
          /\ UNCHANGED <<appDir, staging, appOps>>
       \/ /\ staging.app.exists
          /\ appDir' = staging.app
          /\ staging' = [staging EXCEPT !.app = Absent]
          /\ appOps' = appOps \cup {"rename"}
          /\ Then("spawn")

\* run_updated: Command::new(run_script).spawn()
Spawn ==
    /\ pc = "spawn"
    /\ UNCHANGED uriVars
    /\ UNCHANGED <<fsVars, startVars, netVars, arVars, ts, previousArchives,
                   pendingErr, outcome, appRuns, appOps>>
    /\ \/ /\ Fail("spawn")
          /\ child' = child
       \/ /\ "run.sh" \in appDir.files
          /\ child' = "running"
          /\ Then("list")

\* list_file_names(local_prefix, starts_with(app_name) && ends_with(".tar.gz"))
ListArchives == { t \in Timestamps : tarballs[t].exists }

\* run_updated: let previous_archives = list_file_names(...)?
List ==
    /\ pc = "list"
    /\ UNCHANGED uriVars
    /\ UNCHANGED <<fsVars, startVars, netVars, arVars, ts, child, pendingErr,
                   outcome, appRuns, appOps>>
    /\ \/ /\ Fail("list")
          /\ UNCHANGED previousArchives
       \/ /\ previousArchives' = ListArchives
          /\ Then("create_tar")

\* run_updated: File::create(archived_path.with_extension("tar.gz"))?
CreateTar ==
    /\ pc = "create_tar"
    /\ UNCHANGED uriVars
    /\ UNCHANGED <<appDir, archDirs, ledger, staging, startVars, netVars, arVars,
                   ts, previousArchives, child, pendingErr, outcome, appRuns,
                   appOps>>
    /\ \/ /\ Fail("create_tar")
          /\ UNCHANGED tarballs
       \/ /\ tarballs' = [tarballs EXCEPT ![ts] =
                             [exists |-> TRUE, complete |-> FALSE, of |-> Absent]]
          /\ Then("append_tar")

\* Drop of the tar::Builder and of its GzEncoder when the closure that
\* created them returns: the stream is finished, and an error of that is
\* ignored.
DropBuilder(tars, t) ==
    IF tars[t].exists
    THEN {[tars EXCEPT ![t].complete = TRUE], tars}
    ELSE {tars}

\* run_updated: tar.append_dir_all(app_prefix, &archived_dir)?
\* The entries go to the encoder, which is not finished here.
AppendTar ==
    /\ pc = "append_tar"
    /\ UNCHANGED uriVars
    /\ UNCHANGED <<appDir, archDirs, ledger, staging, startVars, netVars, arVars,
                   ts, previousArchives, child, pendingErr, outcome, appRuns,
                   appOps>>
    /\ \/ /\ Fail("append_tar")
          /\ tarballs' \in DropBuilder(tarballs, ts)
       \/ /\ tarballs' = [tarballs EXCEPT ![ts] =
                             [exists |-> TRUE, complete |-> FALSE, of |-> archDirs[ts]]]
          /\ Then("remove_archived")

\* What a failed fs::remove_dir_all may leave of a directory: all of it, or
\* the directory with its entries already removed.
Remains(dir) == {dir, Dir(dir.src, {}, NoMarker)}

\* run_updated: fs::remove_dir_all(archived_dir)?
RemoveArchived ==
    /\ pc = "remove_archived"
    /\ UNCHANGED uriVars
    /\ UNCHANGED <<appDir, ledger, staging, startVars, netVars, arVars,
                   ts, previousArchives, child, pendingErr, outcome, appRuns,
                   appOps>>
    /\ \/ /\ Fail("remove_archived")
          /\ tarballs' \in DropBuilder(tarballs, ts)
          /\ \E d \in Remains(archDirs[ts]) :
                archDirs' = [archDirs EXCEPT ![ts] = d]
       \/ /\ archDirs' = [archDirs EXCEPT ![ts] = Absent]
          /\ UNCHANGED tarballs
          /\ Then("prune")

\* run_updated: for ar in previous_archives { fs::remove_file(ar)? }
\* The loop removes the files one by one and stops at the first failure.
Prune ==
    /\ pc = "prune"
    /\ UNCHANGED uriVars
    /\ UNCHANGED <<appDir, archDirs, ledger, staging, startVars, netVars, arVars,
                   ts, previousArchives, child, pendingErr, outcome, appRuns,
                   appOps>>
    /\ \E removed \in SUBSET previousArchives :
          LET pruned == [t \in Timestamps |->
                            IF t \in removed THEN NoTar ELSE tarballs[t]]
          IN IF removed = previousArchives
             THEN /\ tarballs' = pruned
                  /\ Then("marker")
             ELSE /\ tarballs' \in DropBuilder(pruned, ts)
                  /\ Fail("prune")

\* run_updated: File::create(app_dir.join(".orm_version"))? and write!(..)?
Marker ==
    /\ pc = "marker"
    /\ UNCHANGED uriVars
    /\ UNCHANGED <<archDirs, ledger, staging, startVars, netVars,
                   arVars, ts, previousArchives, child, pendingErr, outcome,
                   appRuns>>
    /\ \/ /\ Fail("marker")
          /\ tarballs' \in DropBuilder(tarballs, ts)
          /\ UNCHANGED <<appDir, appOps>>
       \/ /\ Fail("marker")
          /\ tarballs' \in DropBuilder(tarballs, ts)
          /\ appDir' = [appDir EXCEPT !.marker = EmptyStr]
          /\ appOps' = appOps \cup {"write"}
       \/ /\ appDir' = [appDir EXCEPT !.marker = newVersion]
          /\ appOps' = appOps \cup {"write"}
          /\ UNCHANGED tarballs
          /\ Then("wait")

\* Exit statuses of run.sh.
ExitStatuses == {0, 1}

\* The child after child.wait() returned its exit status.
ExitedWith(status) == IF status = 0 THEN "exited:0" ELSE "exited:1"

\* Mutant of WaitResult: a non-zero exit status is an error.
WaitResultChecked(status) ==
    IF status = 0 THEN AppTerminated(status) ELSE Err("exit status")

\* child.wait().map(ExecutionStatus::AppTerminated)
WaitResult(status) == AppTerminated(status)

\* run_updated: child.wait().map(ExecutionStatus::AppTerminated), the end of
\* the closure that holds the tar::Builder; with Ok execute returns and its
\* TempDir removes the staging directory.
Wait ==
    /\ pc = "wait"
    /\ UNCHANGED uriVars
    /\ UNCHANGED <<appDir, archDirs, ledger, startVars, netVars,
                   arVars, ts, previousArchives, pendingErr, appRuns, appOps>>
    /\ tarballs' \in DropBuilder(tarballs, ts)
    /\ \/ /\ Fail("wait")
          /\ UNCHANGED <<child, staging, outcome>>
       \/ /\ staging' = NoStaging
          /\ failCause' = failCause
          /\ \E status \in ExitStatuses :
                /\ child' = ExitedWith(status)
                /\ Return(WaitResult(status))

\* Mutant of AppendLine: the file is opened without append(true).
AppendLineTruncating(lines, version) == <<version>>

\* writeln!(failed_versions, "{}", version) on a file opened with append(true)
AppendLine(lines, version) == Append(lines, version)

\* run_updated, failure path: OpenOptions::new().append(true).create(true)
\* .open(failed_versions_path)? and writeln!(failed_versions, "{}", version)?
\* An error of either leaves the closure, and run_updated, at once.
MarkFailed ==
    /\ pc = "mark_failed"
    /\ UNCHANGED uriVars
    /\ UNCHANGED <<appDir, archDirs, tarballs, staging, startVars, netVars,
                   arVars, ts, previousArchives, child, failCause, outcome,
                   appRuns, appOps>>
    /\ \/ /\ pendingErr' = "ledger open"
          /\ pc' = "cleanup"
          /\ UNCHANGED ledger
       \/ /\ pendingErr' = "ledger write"
          /\ pc' = "cleanup"
          /\ ledger' = [exists |-> TRUE, lines |-> ledger.lines]
       \/ /\ ledger' = [exists |-> TRUE, lines |-> AppendLine(ledger.lines, newVersion)]
          /\ pendingErr' = pendingErr
          /\ pc' = "revert_remove"

\* run_updated, failure path: if app_dir.is_dir() { fs::remove_dir_all(app_dir) }
RevertRemove ==
    /\ pc = "revert_remove"
    /\ UNCHANGED uriVars
    /\ UNCHANGED <<archDirs, tarballs, ledger, staging, startVars, netVars,
                   arVars, ts, previousArchives, child, failCause, outcome,
                   appRuns>>
    /\ IF appDir.exists
       THEN \/ /\ \E d \in Remains(appDir) : appDir' = d
               /\ appOps' = IF appDir' # appDir THEN appOps \cup {"remove"} ELSE appOps
               /\ pendingErr' = "revert remove"
               /\ pc' = "cleanup"
            \/ /\ appDir' = Absent
               /\ appOps' = appOps \cup {"remove"}
               /\ pendingErr' = pendingErr
               /\ pc' = "revert_rename"
       ELSE /\ UNCHANGED <<appDir, appOps, pendingErr>>
            /\ pc' = "revert_rename"

\* run_updated, failure path: fs::rename(archived_dir, app_dir), then
\* Ok(NoUpdate(msg)); an error of the rename is the error of run_updated.
RevertRename ==
    /\ pc = "revert_rename"
    /\ UNCHANGED uriVars
    /\ UNCHANGED <<tarballs, ledger, startVars, netVars, arVars, ts,
                   previousArchives, child, failCause, appRuns>>
    /\ \/ /\ pendingErr' = "revert rename"
          /\ pc' = "cleanup"
          /\ UNCHANGED <<appDir, archDirs, staging, outcome, appOps>>
       \/ /\ archDirs[ts].exists
          /\ appDir' = archDirs[ts]
          /\ archDirs' = [archDirs EXCEPT ![ts] = Absent]
          /\ appOps' = appOps \cup {"rename"}
          /\ staging' = NoStaging
          /\ pendingErr' = pendingErr
          /\ Return(NoUpdate("reverted"))

\* execute: the map_err on the result of run_updated.  If the staging
\* directory is still there it is removed, and an error of the removal
\* replaces the error of run_updated; the TempDir is then dropped.
Cleanup ==
    /\ pc = "cleanup"
    /\ UNCHANGED uriVars
    /\ UNCHANGED <<appDir, archDirs, tarballs, ledger, startVars, netVars,
                   arVars, swapVars, appRuns, appOps>>
    /\ IF ~staging.exists
       THEN /\ UNCHANGED staging
            /\ Return(Err(pendingErr))
       ELSE \/ /\ staging' \in DropTempDir(staging)
               /\ Return(Err("cleanup"))
            \/ /\ staging' = NoStaging
               /\ Return(Err(pendingErr))

\* run_app: Command::new(app_dir.join("run.sh")).spawn() and child.wait().
\* Its results: the spawn failed, the child was started and the wait
\* failed, or the child was started and exited.
RunApp(app_dir) ==
    IF "run.sh" \in app_dir.files
    THEN {"spawn failed", "wait failed", "exited"}
    ELSE {"spawn failed"}

\* run_app returned an error.
RunFailed(result) == result # "exited"

\* Mutant of CallsRun: an error of the update is returned without run().
CallsRunOnNoUpdateOnly(kind) == kind = "NoUpdate"

\* main calls run() for NoUpdate (in the match) and for an error of the
\* update (in the or_else), not for AppTerminated.
CallsRun(kind) == kind \in {"NoUpdate", "Err"}

\* main, after update::execute.  Unless the update ended with
\* AppTerminated, run() starts the installed application; an error of the
\* run() called in the match for NoUpdate is an error of update_result, for
\* which the or_else calls run() again.  Then the agent exits.
MainResult ==
    /\ pc = "main_result"
    /\ UNCHANGED uriVars
    /\ pc' = "boot"
    /\ IF ~CallsRun(outcome.kind)
       THEN appRuns' = << >>
       ELSE \E first \in RunApp(appDir) :
               IF outcome.kind = "NoUpdate" /\ RunFailed(first)
               THEN \E second \in RunApp(appDir) : appRuns' = <<first, second>>
               ELSE appRuns' = <<first>>
    /\ UNCHANGED <<fsVars, startVars, netVars, arVars, swapVars, outcome, appOps>>

Next ==
    \/ Main
    \/ ResolveId
    \/ DeviceSettings
    \/ Gate
    \/ Download
    \/ Rename1
    \/ Rename2
    \/ Spawn
    \/ List
    \/ CreateTar
    \/ AppendTar
    \/ RemoveArchived
    \/ Prune
    \/ Marker
    \/ Wait
    \/ MarkFailed
    \/ RevertRemove
    \/ RevertRename
    \/ Cleanup
    \/ MainResult

Spec == Init /\ [][Next]_vars

\* ------------------------------------------------- the scan of the devices
\* device_settings' scan applied to every manifest and every output of
\* id.sh within the bounds.
InitScan ==
    /\ pc = "scan"
    /\ attempt = 0
    /\ appDir = Dir(Factory, {"run.sh", "id.sh"}, NoMarker)
    /\ archDirs = [t \in Timestamps |-> Absent]
    /\ tarballs = [t \in Timestamps |-> NoTar]
    /\ ledger = NoLedger
    /\ staging = NoStaging
    /\ manifest \in Manifests
    /\ clock = 0
    /\ preApp = appDir
    /\ preLedger = ledger
    /\ currentVersion = ZeroVersion
    /\ thingId \in IdOutputs
    /\ manifestStatus = 0
    /\ manifestType = ""
    /\ found = NoFound
    /\ newVersion = EmptyStr
    /\ arFile = << >>
    /\ arScripts = {}
    /\ ts = 0
    /\ previousArchives = {}
    /\ child = "none"
    /\ failCause = ""
    /\ pendingErr = ""
    /\ outcome = NoOutcome
    /\ appRuns = << >>
    /\ requests = << >>
    /\ passed = << >>
    /\ appOps = {}
    /\ manifestUrl = YAML_MANIFEST_URL
    /\ parentUri = NoUri

\* let found = manifest.devices.iter().find(..); Ok(found.map(|dev| dev.clone()))
Scan ==
    /\ pc = "scan"
    /\ UNCHANGED uriVars
    /\ found' = FindDevice(manifest.devices, thingId, 1)
    /\ newVersion' = IF found'.index = 0 THEN EmptyStr
                     ELSE manifest.devices[found'.index].version
    /\ pc' = "scanned"
    /\ UNCHANGED <<fsVars, startVars, arVars, swapVars, outcome, appRuns, appOps,
                   thingId, manifestStatus, manifestType, requests, passed>>

SpecScan == InitScan /\ [][Scan]_vars

\* ------------------------------------------------------------- parent_uri
\* parent_uri applied to every URL within the bounds.
InitUri ==
    /\ pc = "parent_uri"
    /\ attempt = 0
    /\ appDir = Dir(Factory, {"run.sh", "id.sh"}, NoMarker)
    /\ archDirs = [t \in Timestamps |-> Absent]
    /\ tarballs = [t \in Timestamps |-> NoTar]
    /\ ledger = NoLedger
    /\ staging = NoStaging
    /\ manifest = NoManifest
    /\ clock = 0
    /\ preApp = appDir
    /\ preLedger = ledger
    /\ manifestUrl \in Urls
    /\ parentUri = NoUri
    /\ Fresh

\* let parent_uri = parent_uri(manifest_url).unwrap()
DeriveParent ==
    /\ pc = "parent_uri"
    /\ parentUri' = ParentUri(manifestUrl)
    /\ pc' = "parent_derived"
    /\ UNCHANGED <<fsVars, startVars, netVars, arVars, swapVars, outcome, appRuns,
                   appOps, manifestUrl>>

SpecUri == InitUri /\ [][DeriveParent]_vars

\* ================================================================ claims
Range(seq) == { seq[i] : i \in 1..Len(seq) }

\* execute has returned to main.
AttemptEnded == pc = "main_result"

\* The agent has exited after an attempt.
AtRest == pc = "boot" /\ attempt > 0

\* The first rename of the swap has succeeded in this attempt.
SwapBegun == ts # 0 /\ "rename" \in appOps

Retained == { t \in Timestamps : tarballs[t].exists }

LeftDirs == { t \in Timestamps : archDirs[t].exists }

NewReleaseInstalled ==
    appDir.exists /\ appDir.src = newVersion /\ appDir.marker = newVersion

\* The environment failed no step of the failure path or of the cleanup:
\* the ledger was appended to, app_dir was removed, the restoring rename
\* did not fail with its source in place, the staging directory went.
FailurePathUndisturbed ==
    /\ pendingErr \notin {"ledger open", "ledger write", "revert remove"}
    /\ ~(pendingErr = "revert rename" /\ archDirs[ts].exists)
    /\ outcome.reason # "cleanup"

\* C1: an attempt that completed the swap and then failed to spawn run.sh
\* or to wait on the child ends with app_dir as it was before the update,
\* the attempted version in the ledger, and neither the archived directory
\* nor the staging directory left on disk (stated for the attempts whose
\* archive holds both scripts and in which the environment fails no other
\* step).
C1_FailedStartRestored ==
    (/\ AttemptEnded
     /\ failCause \in {"spawn", "wait"}
     /\ arScripts = {"run.sh", "id.sh"}
     /\ FailurePathUndisturbed) =>
        /\ appDir = preApp
        /\ newVersion \in Range(ledger.lines)
        /\ ~archDirs[ts].exists
        /\ ~staging.exists

\* C2: once the first rename of the swap has succeeded, the attempt ends
\* with app_dir holding the new release with its marker written, or
\* holding the pre-update content, unless the environment failed the
\* restoring rename (whose source was still there); app_dir is never absent
\* and never lacks run.sh at the end of an attempt.
C2_CompletionOrRollback ==
    (AttemptEnded /\ SwapBegun
       /\ ~(pendingErr = "revert rename" /\ archDirs[ts].exists)) =>
        /\ NewReleaseInstalled \/ appDir = preApp
        /\ appDir.exists
        /\ "run.sh" \in appDir.files

\* C3: after every attempt that ends with AppTerminated, app_dir holds the
\* new release, its marker holds the manifest's version string, exactly
\* one <app_name>*.tar.gz exists and no <app_name>-<timestamp> directory.
C3_AfterSuccess ==
    (AttemptEnded /\ outcome.kind = "AppTerminated") =>
        /\ NewReleaseInstalled
        /\ Cardinality(Retained) = 1
        /\ LeftDirs = {}

\* C4: an attempt that ends before run_updated is entered leaves app_dir
\* and everything in it unchanged.
C4_PreSwapLeavesAppDir ==
    (AttemptEnded /\ ts = 0) => (appDir = preApp /\ appOps = {})

\* C5: an archive is accepted only if it holds both <app_name>/run.sh and
\* <app_name>/id.sh, and an archive rejected as invalid is rejected before
\* any rename of app_dir.
C5_BothScriptsRequired ==
    /\ pc = "rename1" => arScripts = {"run.sh", "id.sh"}
    /\ outcome = Err("invalid archive") => (ts = 0 /\ "rename" \notin appOps)

\* The version assigned by the manifest in this attempt is equal to a line
\* the ledger held when the attempt started.
SameVersion(line, str) ==
    ParseOk(line) /\ ParseOk(str) /\ ParseVersion(line) = ParseVersion(str)

AssignedVersionFailedBefore ==
    \E line \in Range(preLedger.lines) : SameVersion(line, newVersion)

NotReattempted ==
    /\ "archive" \notin Range(requests)
    /\ appOps = {}
    /\ appDir = preApp
    /\ child = "none"

\* C6 as stated: every attempt whose assigned version equals a ledger line
\* ends with NoUpdate, without a download, a rename or a spawn.
C6_Original ==
    (AttemptEnded /\ AssignedVersionFailedBefore) =>
        (outcome.kind = "NoUpdate" /\ NotReattempted)

\* C6 (amended): an attempt whose assigned version equals a ledger line
\* never downloads the archive, renames app_dir or spawns run.sh; it ends
\* with NoUpdate, or with the error of find_line when the ledger cannot be
\* read.
C6_FailedVersionNotReattempted ==
    AssignedVersionFailedBefore =>
        /\ NotReattempted
        /\ pc \in {"gate", "main_result", "boot"}
        /\ pc # "gate" => (outcome.kind = "NoUpdate" \/ outcome = Err("ledger read"))

C6_Witness ==
    /\ AttemptEnded
    /\ AssignedVersionFailedBefore
    /\ newVersion \in Range(preLedger.lines)
    /\ outcome = NoUpdate("failed version")

\* C7: the attempt passes the version gate iff the assigned version is
\* strictly greater than the current one; otherwise it ends with NoUpdate,
\* downloads nothing and leaves app_dir untouched.
C7_StrictlyNewerOnly ==
    (ParseOk(newVersion) /\ pc \notin {"gate", "scanned"}) =>
        LET a == currentVersion
            b == ParseVersion(newVersion)
        IN /\ "newer" \in Range(passed) <=> VersionLess(a, b)
           /\ ~VersionLess(a, b) =>
                 /\ outcome.kind = "NoUpdate"
                 /\ "archive" \notin Range(requests)
                 /\ appDir = preApp
                 /\ appOps = {}

C7_Witness ==
    /\ AttemptEnded
    /\ ParseOk(newVersion)
    /\ ParseVersion(newVersion) = currentVersion
    /\ currentVersion # ZeroVersion
    /\ outcome = NoUpdate("up-to-date")

\* C8: at rest local_prefix holds the live application directory, at most
\* one <app_name>*.tar.gz and no <app_name>-<timestamp> directory.
C8_AtRestOneGeneration ==
    AtRest =>
        /\ appDir.exists
        /\ Cardinality(Retained) <= 1
        /\ LeftDirs = {}

Matches(i) ==
    /\ PatternCompiles(manifest.devices[i].pattern)
    /\ PatternIsMatch(manifest.devices[i].pattern, thingId)

\* C9: the scan returns the first device in declared order whose pattern
\* compiles and matches the thing ID, skips devices whose pattern does not
\* compile, evaluates no device after the first match, and returns None
\* when no device matches.
C9_FirstMatchWins ==
    pc = "scanned" =>
        LET n == Len(manifest.devices)
            hits == { i \in 1..n : Matches(i) }
        IN IF hits = {}
           THEN found.index = 0 /\ found.evaluated = n /\ newVersion = EmptyStr
           ELSE /\ found.index \in hits
                /\ \A i \in hits : found.index <= i
                /\ found.evaluated = found.index
                /\ newVersion = manifest.devices[found.index].version

C9_Witness ==
    /\ pc = "scanned"
    /\ Len(manifest.devices) = 2
    /\ ~PatternCompiles(manifest.devices[1].pattern)
    /\ found.index = 2

\* C10: the archive GET is issued only after the manifest GET returned 200,
\* the body parsed, object_type matched, a device matched, its version
\* parsed, was strictly greater than the current one and was not in the
\* ledger, in this order; an object_type mismatch and a status other than
\* 200 end the attempt after the single manifest request.
C10_ArchiveGetAfterChecks ==
    /\ "archive" \in Range(requests) =>
          /\ requests = <<"manifest", "archive">>
          /\ manifestStatus = 200
          /\ manifestType = OBJECT_TYPE
          /\ ParseOk(newVersion)
          /\ VersionLess(currentVersion, ParseVersion(newVersion))
          /\ preLedger.exists
          /\ ~AssignedVersionFailedBefore
          /\ passed = <<"status", "parse", "object_type", "device", "version",
                        "newer", "not failed">>
    /\ manifestType \notin {"", OBJECT_TYPE} =>
          /\ outcome = Err("mismatch")
          /\ requests = <<"manifest">>
    /\ manifestStatus \notin {0, 200} =>
          /\ outcome = Err("status")
          /\ requests = <<"manifest">>

C10_Witness ==
    /\ pc = "rename1"
    /\ requests = <<"manifest", "archive">>
    /\ manifestType = OBJECT_TYPE

\* main returned before update::execute was called.
MainStopped ==
    /\ outcome.kind = "Err"
    /\ outcome.reason \in {"main: no application directory",
                           "main: version marker unreadable"}

\* The version gate or the check of the failed versions ended the attempt.
StoppedAtGate ==
    /\ ParseOk(newVersion)
    /\ "archive" \notin Range(requests)
    /\ \/ ~VersionLess(currentVersion, ParseVersion(newVersion))
       \/ AssignedVersionFailedBefore

\* The failure path of run_updated ran to its end.
RolledBack ==
    /\ failCause # ""
    /\ newVersion \in Range(ledger.lines)
    /\ "rename" \in appOps

\* C11 as stated: every attempt in which the restoring rename did not fail
\* ends with NoUpdate or AppTerminated, never with an error.
C11_Original ==
    (AttemptEnded /\ pendingErr # "revert rename") =>
        outcome.kind \in {"NoUpdate", "AppTerminated"}

\* C11 (amended): execute returns NoUpdate only from the version gate, the
\* check of the failed versions or a completed rollback, and AppTerminated
\* only after the child exited; every failure of any other kind is returned
\* as an error.  main converts nothing: after an error, as after NoUpdate,
\* it calls run_app for the installed application.
C11_FailuresSurfaceAsErr ==
    /\ AttemptEnded =>
          /\ outcome.kind \in {"NoUpdate", "AppTerminated", "Err"}
          /\ outcome.kind = "NoUpdate" => (StoppedAtGate \/ RolledBack)
          /\ outcome.kind = "AppTerminated" => child \notin {"none", "running"}
    /\ (AtRest /\ ~MainStopped /\ outcome.kind # "AppTerminated") =>
          Len(appRuns) >= 1

C11_Witness ==
    /\ AtRest
    /\ outcome = Err("identity")
    /\ appRuns = <<"exited">>

\* C13: resolve_version never fails: whatever the marker of an existing
\* app_dir, main goes on to update::execute, with the parsed version when
\* the marker holds a valid one and 0.0.0 otherwise.
C13_VersionAlwaysResolved ==
    /\ (AtRest /\ preApp.exists) =>
          outcome # Err("main: version marker unreadable")
    /\ pc = "resolve_id" =>
          currentVersion = IF appDir.marker # NoMarker /\ ParseOk(appDir.marker)
                           THEN ParseVersion(appDir.marker)
                           ELSE ZeroVersion

\* C14: when the child spawned from run.sh of the new release exits, with
\* any status, the attempt ends with AppTerminated carrying that status,
\* the failure path is not entered, the ledger is unchanged and app_dir
\* holds the new release with its marker at the new version.
C14_ExitStatusNotFailure ==
    \A status \in ExitStatuses :
        (AttemptEnded /\ child = ExitedWith(status)) =>
            /\ outcome = AppTerminated(status)
            /\ failCause = ""
            /\ ledger = preLedger
            /\ NewReleaseInstalled

C14_Witness ==
    /\ AttemptEnded
    /\ child = ExitedWith(1)
    /\ outcome = AppTerminated(1)
    /\ NewReleaseInstalled

\* The segments of a path, in order.
SegmentsOf(path) == SelectSeq(path, LAMBDA c : c # "/")

C15_RenameFailureAborts ==
    (/\ AttemptEnded
     /\ pendingErr = "swap" \/ failCause = "rename2"
     /\ "unpack" \notin appOps
     /\ FailurePathUndisturbed) =>
        /\ outcome.kind = "Err"
        /\ appDir = preApp
        /\ ledger = preLedger

IsPrefix(a, b) == Len(a) <= Len(b) /\ SubSeq(b, 1, Len(a)) = a

C17_CleanupKeepsOriginalError ==
    (AttemptEnded /\ pendingErr # "") =>
        /\ outcome = Err(pendingErr)
        /\ ~staging.exists

\* C18: when opening or appending to the ledger fails inside the failure
\* path, the rollback is still performed: app_dir ends with its pre-update
\* content and the archived directory is gone.
C18_LedgerFailureKeepsRollback ==
    (AttemptEnded /\ pendingErr \in {"ledger open", "ledger write"}) =>
        /\ appDir = preApp
        /\ ~archDirs[ts].exists

\* C19: when .orm_failed does not exist, an assigned version strictly
\* greater than the current one passes the check of the failed versions
\* and the attempt goes on to the download.
C19_MissingLedgerIsEmpty ==
    ("newer" \in Range(passed) /\ ~preLedger.exists) =>
        /\ "not failed" \in Range(passed)
        /\ outcome # Err("ledger read")

\* One ASCII letter followed by letters, digits or hyphens, and nothing else.
IdWellFormed(id) ==
    /\ Len(id) >= 1
    /\ id[1] = "a"
    /\ \A i \in 2..Len(id) : id[i] \in {"a", "1", "-"}

\* C20: the thing ID is resolved, and the manifest fetched, only when the
\* trimmed output of id.sh as a whole is a letter followed by letters,
\* digits or hyphens.
C20_IdFullMatch ==
    pc = "device_settings" => IdWellFormed(thingId)

\* The content app_dir had when the attempt started is on disk: in app_dir,
\* in the archived directory, or in the finished tarball made of it.
PreUpdateContentKept ==
    \/ appDir = preApp
    \/ archDirs[ts] = preApp
    \/ /\ tarballs[ts].exists
       /\ tarballs[ts].complete
       /\ tarballs[ts].of = preApp

\* C21: from the first rename of the swap until the attempt ends, the
\* pre-update content of app_dir is on disk in app_dir, in the archived
\* directory or in the completed tarball (stated for the attempts whose
\* archive wrote nothing outside the staging directory, as long as no
\* step has failed).
C21_PreviousContentKept ==
    (/\ SwapBegun
     /\ pc # "boot"
     /\ "unpack" \notin appOps
     /\ failCause = ""
     /\ pendingErr = "") => PreUpdateContentKept

\* C22: no child spawned from run.sh of the new release is running when an
\* attempt ends with NoUpdate or with an error, nor when the failure path
\* has removed app_dir (stated for the attempts in which the environment
\* fails no step of the failure path).
C22_NoChildOutlivesRollback ==
    FailurePathUndisturbed =>
        /\ (AttemptEnded /\ outcome.kind \in {"NoUpdate", "Err"}) =>
              child # "running"
        /\ "remove" \in appOps => child # "running"

\* Number of calls of run_app that started run.sh.
Starts(runs) == Cardinality({ i \in 1..Len(runs) : runs[i] # "spawn failed" })

\* C23: after an attempt that ends with NoUpdate or an error main calls
\* run_app, after AppTerminated it does not, and the installed application
\* is never started more than once after the attempt.
C23_InstalledStartedOnce ==
    (AtRest /\ ~MainStopped) =>
        /\ outcome.kind = "AppTerminated" => appRuns = << >>
        /\ outcome.kind \in {"NoUpdate", "Err"} => Len(appRuns) >= 1
        /\ Starts(appRuns) <= 1

====
